---- MODULE Spec2Model ----
(***************************************************************************)
(* Model of the mix context store: the store operations cat, touch and     *)
(* clean over a POSIX filesystem.                                          *)
(*                                                                         *)
(* A path is the sequence of its components, as Rust's Path compares and   *)
(* walks paths (Path::components): "/proj/.mix/a/../b.md" is               *)
(* <<"proj", ".mix", "a", "..", "b.md">>.  Paths handed to the operating   *)
(* system keep their ".." components; the system resolves them against the *)
(* directories that exist when the call is made.                           *)
(*                                                                         *)
(* The filesystem is a function from the physical paths that exist to      *)
(* their entries; a file's data is the sequence of its bytes.              *)
(***************************************************************************)
EXTENDS Naturals, Integers, Sequences, FiniteSets, TLC

VARIABLES
    fs,     \* the filesystem now
    pre,    \* the filesystem when the last operation was called
    last,   \* the last operation: its name, its arguments and what it returned
    rt,     \* progress of a touch -> write -> cat round trip on one key
    n       \* how many operations have run

vars == <<fs, pre, last, rt, n>>

----------------------------------------------------------------------------
(* Bounds of the model *)

\* Longest run of operations explored.
MaxOps == 3

\* A byte sequence that is not valid UTF-8.
BadByte == "\\xFF"

\* The contents a caller writes: the empty string and a non-empty one.
Texts == {<<>>, <<"x">>}

\* What the clipboard holds when it can be read.
ClipTexts == {<<"p">>}

----------------------------------------------------------------------------
(* Paths: std::path *)

DotDot == ".."

\* Path::parent: the path without its final component.
Parent(p) == SubSeq(p, 1, Len(p) - 1)

\* Path::starts_with: whole components of base are a prefix of p.
StartsWith(p, base) ==
    /\ Len(p) >= Len(base)
    /\ SubSeq(p, 1, Len(base)) = base

\* Path::join: an absolute right-hand side replaces the left-hand side.
Join(base, rel) == IF rel.abs THEN rel.segs ELSE base \o rel.segs

----------------------------------------------------------------------------
(* The filesystem: what the operating system does on the calls of std::fs *)

Dir == [kind |-> "dir", data |-> <<>>]
File(d) == [kind |-> "file", data |-> d]

\* Path resolution: every component before the last must be an existing
\* directory; ".." steps to the physical parent (the root is its own parent).
\* The final position may name something that does not exist.
RECURSIVE Walk(_, _, _)
Walk(f, cur, rest) ==
    IF rest = <<>> THEN [err |-> "", at |-> cur]
    ELSE IF cur \notin DOMAIN f THEN [err |-> "ENOENT", at |-> cur]
    ELSE IF f[cur].kind # "dir" THEN [err |-> "ENOTDIR", at |-> cur]
    ELSE Walk(f,
              IF Head(rest) = DotDot
                  THEN (IF cur = <<>> THEN cur ELSE Parent(cur))
                  ELSE Append(cur, Head(rest)),
              Tail(rest))

Lookup(f, p) == Walk(f, <<>>, p)

\* Path::exists
Exists(f, p) ==
    LET w == Lookup(f, p) IN w.err = "" /\ w.at \in DOMAIN f

\* Path::is_file
IsFile(f, p) ==
    LET w == Lookup(f, p) IN
    w.err = "" /\ w.at \in DOMAIN f /\ f[w.at].kind = "file"

\* Path::is_dir
IsDir(f, p) ==
    LET w == Lookup(f, p) IN
    w.err = "" /\ w.at \in DOMAIN f /\ f[w.at].kind = "dir"

Children(f, at) == {q \in DOMAIN f : Len(q) = Len(at) + 1 /\ StartsWith(q, at)}

Without(f, gone) == [q \in DOMAIN f \ gone |-> f[q]]

\* fs::remove_file (unlink): fails on a missing path and on a directory.
RemoveFile(f, p) ==
    LET w == Lookup(f, p) IN
    IF w.err # "" THEN [fs |-> f, err |-> w.err]
    ELSE IF w.at \notin DOMAIN f THEN [fs |-> f, err |-> "ENOENT"]
    ELSE IF f[w.at].kind = "dir" THEN [fs |-> f, err |-> "EISDIR"]
    ELSE [fs |-> Without(f, {w.at}), err |-> ""]

\* fs::remove_dir (rmdir): removes an empty directory only; a path whose final
\* component is ".." is refused whatever it resolves to.
RemoveDir(f, p) ==
    LET w == Lookup(f, p) IN
    IF w.err # "" THEN [fs |-> f, err |-> w.err]
    ELSE IF p # <<>> /\ p[Len(p)] = DotDot THEN [fs |-> f, err |-> "ENOTEMPTY"]
    ELSE IF w.at \notin DOMAIN f THEN [fs |-> f, err |-> "ENOENT"]
    ELSE IF f[w.at].kind # "dir" THEN [fs |-> f, err |-> "ENOTDIR"]
    ELSE IF w.at = <<>> THEN [fs |-> f, err |-> "EBUSY"]
    ELSE IF Children(f, w.at) # {} THEN [fs |-> f, err |-> "ENOTEMPTY"]
    ELSE [fs |-> Without(f, {w.at}), err |-> ""]

\* fs::remove_dir_all: the directory and everything below it.
RemoveDirAll(f, p) ==
    LET w == Lookup(f, p) IN
    IF w.err # "" THEN [fs |-> f, err |-> w.err]
    ELSE IF w.at \notin DOMAIN f THEN [fs |-> f, err |-> "ENOENT"]
    ELSE IF f[w.at].kind # "dir" THEN [fs |-> f, err |-> "ENOTDIR"]
    ELSE [fs |-> Without(f, {q \in DOMAIN f : StartsWith(q, w.at)}), err |-> ""]

\* fs::create_dir (mkdir)
MkDir(f, p) ==
    LET w == Lookup(f, p) IN
    IF w.err # "" THEN [fs |-> f, err |-> w.err]
    ELSE IF w.at \in DOMAIN f THEN [fs |-> f, err |-> "EEXIST"]
    ELSE [fs |-> (w.at :> Dir) @@ f, err |-> ""]

\* fs::create_dir_all: mkdir; when a parent is missing, create the parents and
\* mkdir again; an error is forgiven when the path is a directory after all.
RECURSIVE CreateDirAll(_, _)
CreateDirAll(f, p) ==
    LET m == MkDir(f, p) IN
    IF m.err = "" THEN m
    ELSE IF m.err = "ENOENT" /\ p # <<>> THEN
        LET up == CreateDirAll(f, Parent(p)) IN
        IF up.err # "" THEN up
        ELSE LET again == MkDir(up.fs, p) IN
             IF again.err = "" THEN again
             ELSE IF IsDir(up.fs, p) THEN [fs |-> up.fs, err |-> ""]
             ELSE [fs |-> up.fs, err |-> again.err]
    ELSE IF IsDir(f, p) THEN [fs |-> f, err |-> ""]
    ELSE m

\* fs::write: create the file or truncate it, then write the data.
WriteFile(f, p, data) ==
    LET w == Lookup(f, p) IN
    IF w.err # "" THEN [fs |-> f, err |-> w.err]
    ELSE IF w.at \in DOMAIN f /\ f[w.at].kind = "dir" THEN [fs |-> f, err |-> "EISDIR"]
    ELSE [fs |-> (w.at :> File(data)) @@ f, err |-> ""]

IsUtf8(data) == \A i \in 1..Len(data) : data[i] # BadByte

\* fs::read_to_string: fails on a directory and on bytes that are not UTF-8.
ReadToString(f, p) ==
    LET w == Lookup(f, p) IN
    IF w.err # "" THEN [data |-> <<>>, err |-> w.err]
    ELSE IF w.at \notin DOMAIN f THEN [data |-> <<>>, err |-> "ENOENT"]
    ELSE IF f[w.at].kind = "dir" THEN [data |-> <<>>, err |-> "EISDIR"]
    ELSE IF ~IsUtf8(f[w.at].data) THEN [data |-> <<>>, err |-> "EINVAL"]
    ELSE [data |-> f[w.at].data, err |-> ""]

----------------------------------------------------------------------------
(* Keys, and the resolution engine of touch.rs *)

\* A key is the user's string, held as its "/"-separated segments; abs says
\* that it starts with "/".
Key(abs, segs) == [abs |-> abs, segs |-> segs]
Rel(segs) == Key(FALSE, segs)

\* The working directory of the process.
Cwd == <<"proj">>

\* The first ancestor of the working directory that holds a marker, else the
\* working directory itself.
RECURSIVE Ascend(_, _, _)
Ascend(f, dir, markers) ==
    IF \E m \in markers : Exists(f, Append(dir, m)) THEN dir
    ELSE IF dir = <<>> THEN Cwd
    ELSE Ascend(f, Parent(dir), markers)

find_project_root(f, store) == Ascend(f, Cwd, {store, ".git"})

AliasTable ==
    ("tk" :> <<"tasks.md">>) @@ ("rq" :> <<"requirements.md">>)
    @@ ("pdt" :> <<"pending", "tasks.md">>)

\* The numbered family and the pending prefix, for the keys of the model.
NumberedTable == ("tk1" :> <<"tasks-1.md">>)
PendingTable == ("pd-tk" :> <<"pending", "tasks.md">>)

\* Path::extension of a file name: names of the model that carry one.
HasExtension(name) == name \in {"somedir.md", "tasks.md", "requirements.md"}

WithDefaultExtension(segs) ==
    IF segs = <<>> THEN <<".md">>
    ELSE IF HasExtension(segs[Len(segs)]) THEN segs
    ELSE [segs EXCEPT ![Len(segs)] = @ \o ".md"]

resolve_path(key) ==
    LET single == ~key.abs /\ Len(key.segs) = 1 IN
    IF single /\ key.segs[1] \in DOMAIN AliasTable
        THEN Rel(AliasTable[key.segs[1]])
    ELSE IF single /\ key.segs[1] \in DOMAIN NumberedTable
        THEN Rel(NumberedTable[key.segs[1]])
    ELSE IF single /\ key.segs[1] \in DOMAIN PendingTable
        THEN Rel(PendingTable[key.segs[1]])
    ELSE Key(key.abs, WithDefaultExtension(key.segs))

\* Depth below the store root after the first i components of a relative path.
Depth(segs, i) ==
    Cardinality({j \in 1..i : segs[j] # DotDot})
    - Cardinality({j \in 1..i : segs[j] = DotDot})

\* Lexical escape: an absolute path, or a ".." that steps above the store root.
Escapes(rel) == rel.abs \/ \E i \in 1..Len(rel.segs) : Depth(rel.segs, i) < 0

validate_path(key, rel) == IF Escapes(rel) THEN "PathTraversal" ELSE ""

----------------------------------------------------------------------------
(* Results *)

Outcome(kind, msg) ==
    [kind |-> kind, msg |-> msg, data |-> <<>>,
     existed |-> FALSE, overwritten |-> FALSE, path |-> <<>>]

----------------------------------------------------------------------------
(* clean: core/clean.rs *)

mix_dir(root) == Append(root, ".mix")

\* The pruning loop: remove_dir on parent after parent while the path is
\* lexically below the store root, stopping at the first removal that fails.
RECURSIVE Prune(_, _, _)
Prune(f, parent, store) ==
    IF StartsWith(parent, store) /\ parent # store THEN
        LET r == RemoveDir(f, parent) IN
        IF r.err # "" THEN f
        ELSE IF parent # <<>> THEN Prune(r.fs, Parent(parent), store)
        ELSE r.fs
    ELSE f

\* key is <<>> (None) or <<k>> (Some(k)).
clean(f, key) ==
    LET root == find_project_root(f, ".mix")
        store == mix_dir(root)
    IN
    IF key = <<>> THEN
        IF Exists(f, store) THEN
            LET r == RemoveDirAll(f, store) IN
            IF r.err # "" THEN [fs |-> f, res |-> Outcome("Io", r.err)]
            ELSE [fs |-> r.fs, res |-> Outcome("Ok", "Removed .mix directory")]
        ELSE [fs |-> f, res |-> Outcome("Ok", ".mix directory not found")]
    ELSE
        LET relative_path == resolve_path(key[1])
            target_path == Join(store, relative_path)
        IN
        IF Exists(f, target_path) THEN
            LET r == RemoveFile(f, target_path) IN
            IF r.err # "" THEN [fs |-> f, res |-> Outcome("Io", r.err)]
            ELSE [fs |-> IF target_path # <<>>
                            THEN Prune(r.fs, Parent(target_path), store)
                            ELSE r.fs,
                  res |-> Outcome("Ok", "Removed")]
        ELSE [fs |-> f, res |-> Outcome("NotFound", "File not found")]

----------------------------------------------------------------------------
(* cat: commands/cat.rs *)

\* (the store root under the name clean uses)
mx_dir_as_clean(root) == Append(root, ".mix")

mx_dir(root) == Append(root, ".mx")

\* (the check left out, as in clean)
CatValidateSkipped(key, relative_path) == ""

\* The traversal check cat makes before it builds the full path.
CatValidate(key, relative_path) == validate_path(key, relative_path)

\* (the test left out)
CatIsFileSkipped(f, full_path) == TRUE

\* The test that the path is a regular file, once it is known to exist.
CatIsFile(f, full_path) == IsFile(f, full_path)

cat(f, key) ==
    LET root == find_project_root(f, ".mx")
        relative_path == resolve_path(key)
        full_path == Join(mx_dir(root), relative_path)
    IN
    IF CatValidate(key, relative_path) # "" THEN Outcome("PathTraversal", "")
    ELSE IF ~Exists(f, full_path) THEN Outcome("NotFound", "Context file not found")
    ELSE IF ~CatIsFile(f, full_path) THEN Outcome("NotFound", "Path is not a file")
    ELSE LET r == ReadToString(f, full_path) IN
         IF r.err # "" THEN Outcome("Io", r.err)
         ELSE [Outcome("Ok", "") EXCEPT !.data = r.data]

----------------------------------------------------------------------------
(* touch: commands/touch.rs, and touch_context: lib.rs *)

\* The store root of touch.
touch_dir(root) == Append(root, ".mx")

touch(f, key, force) ==
    LET root == find_project_root(f, ".mx")
        relative_path == resolve_path(key)
        path == Join(touch_dir(root), relative_path)
        existed == Exists(f, path)
        done(g) == [fs |-> g,
                    res |-> [Outcome("Ok", "") EXCEPT !.existed = existed,
                                 !.overwritten = existed /\ force, !.path = path]]
    IN
    IF validate_path(key, relative_path) # ""
        THEN [fs |-> f, res |-> Outcome("PathTraversal", "")]
    ELSE IF existed /\ ~force THEN done(f)
    ELSE IF existed THEN
        LET w == WriteFile(f, path, <<>>) IN
        IF w.err # "" THEN [fs |-> f, res |-> Outcome("Io", w.err)] ELSE done(w.fs)
    ELSE
        LET d == IF path # <<>> THEN CreateDirAll(f, Parent(path))
                 ELSE [fs |-> f, err |-> ""]
        IN
        IF d.err # "" THEN [fs |-> d.fs, res |-> Outcome("Io", d.err)]
        ELSE LET w == WriteFile(d.fs, path, <<>>) IN
             IF w.err # "" THEN [fs |-> d.fs, res |-> Outcome("Io", w.err)]
             ELSE done(w.fs)

\* (paste whenever asked to)
ShouldPasteAlways(paste, existed, overwritten) == paste

\* Paste when the file was just created or was overwritten.
ShouldPaste(paste, existed, overwritten) == paste /\ (~existed \/ overwritten)

\* (overwritten filled from existed)
TouchOutcomeSwapped(o) ==
    [o EXCEPT !.existed = o.existed, !.overwritten = o.existed]

\* The TouchOutcome returned: the fields of touch's outcome, passed through.
TouchOutcome(o) ==
    [o EXCEPT !.existed = o.existed, !.overwritten = o.overwritten]

\* clip is what the clipboard gives: <<>> when it fails, <<text>> otherwise.
touch_context(f, key, paste, force, clip) ==
    LET t == touch(f, key, force) IN
    IF t.res.kind # "Ok" THEN t
    ELSE IF ShouldPaste(paste, t.res.existed, t.res.overwritten) THEN
        IF clip = <<>> THEN [fs |-> t.fs, res |-> Outcome("Clipboard", "")]
        ELSE LET w == WriteFile(t.fs, t.res.path, clip[1]) IN
             IF w.err # "" THEN [fs |-> t.fs, res |-> Outcome("Io", w.err)]
             ELSE [fs |-> w.fs, res |-> TouchOutcome(t.res)]
    ELSE [fs |-> t.fs, res |-> TouchOutcome(t.res)]

----------------------------------------------------------------------------
(* The keys and the starting filesystems of the model *)

K_tk == Rel(<<"tk">>)
K_abc == Rel(<<"a", "b", "c">>)
K_somedir == Rel(<<"somedir.md">>)
\* a file next to the store, reached by stepping out of it
K_up == Rel(<<DotDot, "x">>)
\* out of the store and back in through its name
K_reenter == Rel(<<DotDot, ".mix", "a", "b", "c">>)
\* ".." that stays inside the store
K_inside == Rel(<<"a", "b", DotDot, "b", "c">>)
K_abs == Key(TRUE, <<"proj", "x">>)

Keys == {K_tk, K_abc, K_somedir, K_up, K_reenter, K_inside, K_abs}

NoFiles == (<<>> :> Dir) @@ (Cwd :> Dir)

\* Store layouts, relative to the store root.
L_alone ==
    (<<>> :> Dir) @@ (<<"a">> :> Dir) @@ (<<"a", "b">> :> Dir)
    @@ (<<"a", "b", "c.md">> :> File(<<"x">>))
L_sibling == L_alone @@ (<<"a", "d.md">> :> File(<<"x">>))
L_dir == (<<>> :> Dir) @@ (<<"somedir.md">> :> Dir)
L_binary == (<<>> :> Dir) @@ (<<"tasks.md">> :> File(<<BadByte>>))

\* The layout placed at a store root.
Under(store, layout) ==
    [p \in {store \o q : q \in DOMAIN layout} |->
        layout[SubSeq(p, Len(store) + 1, Len(p))]]

Idle ==
    [op |-> "none", key |-> <<>>, paste |-> FALSE, force |-> FALSE,
     clip |-> <<>>, res |-> Outcome("Ok", "")]

NoRoundTrip == [phase |-> 0, key |-> <<>>, data |-> <<>>]

\* The starting filesystems: no store, or a store of either name in one of
\* the layouts, with or without a file beside the store.
Scenarios ==
    LET mix(l) == Under(Append(Cwd, ".mix"), l)
        mx(l) == Under(Append(Cwd, ".mx"), l)
        beside == (Append(Cwd, "x.md") :> File(<<"x">>))
    IN
    { NoFiles,
      mix(L_alone) @@ beside @@ NoFiles,
      mix(L_sibling) @@ NoFiles,
      mix(L_dir) @@ NoFiles,
      mx(L_dir) @@ NoFiles,
      mx(L_binary) @@ NoFiles,
      mx(L_sibling) @@ NoFiles,
      mix(L_alone) @@ mx(L_alone) @@ beside @@ NoFiles }

Init ==
    /\ fs \in Scenarios
    /\ pre = fs
    /\ last = Idle
    /\ rt = NoRoundTrip
    /\ n = 0

----------------------------------------------------------------------------
(* The operations *)

CatStep ==
    \E k \in Keys :
        LET r == cat(fs, k) IN
        /\ n < MaxOps
        /\ n' = n + 1
        /\ pre' = fs
        /\ fs' = fs
        /\ last' = [Idle EXCEPT !.op = "cat", !.key = <<k>>, !.res = r]
        /\ rt' = IF rt.phase = 2 /\ rt.key = <<k>>
                    THEN [rt EXCEPT !.phase = 3] ELSE NoRoundTrip

CleanStep ==
    \E key \in {<<>>} \cup {<<k>> : k \in Keys} :
        LET c == clean(fs, key) IN
        /\ n < MaxOps
        /\ n' = n + 1
        /\ pre' = fs
        /\ fs' = c.fs
        /\ last' = [Idle EXCEPT !.op = "clean", !.key = key, !.res = c.res]
        /\ rt' = NoRoundTrip

TouchStep ==
    \E k \in Keys, force \in BOOLEAN,
       clip \in {<<>>} \cup {<<t>> : t \in ClipTexts} :
      \E paste \in IF clip = <<>> THEN BOOLEAN ELSE {TRUE} :
        LET t == touch_context(fs, k, paste, force, clip) IN
        /\ n < MaxOps
        /\ n' = n + 1
        /\ pre' = fs
        /\ fs' = t.fs
        /\ last' = [op |-> "touch", key |-> <<k>>, paste |-> paste,
                    force |-> force, clip |-> clip, res |-> t.res]
        /\ rt' = IF force /\ t.res.kind = "Ok"
                    THEN [phase |-> 1, key |-> <<k>>, data |-> <<>>]
                    ELSE NoRoundTrip

\* The caller writes known content to the file a forced touch just returned.
WriteStep ==
    \E c \in Texts :
        /\ n < MaxOps
        /\ n' = n + 1
        /\ rt.phase = 1
        /\ last.op = "touch"
        /\ LET w == WriteFile(fs, last.res.path, c) IN
            /\ w.err = ""
            /\ pre' = fs
            /\ fs' = w.fs
            /\ last' = [Idle EXCEPT !.op = "write", !.key = rt.key, !.clip = <<c>>]
            /\ rt' = [rt EXCEPT !.phase = 2, !.data = c]

Next == CatStep \/ CleanStep \/ TouchStep \/ WriteStep

Spec == Init /\ [][Next]_vars

----------------------------------------------------------------------------
(* What the claims speak of *)

\* The store root as clean names it, and as cat and touch name it.
MixStore == Append(Cwd, ".mix")
MxStore == Append(Cwd, ".mx")

Called(op) == last.op = op
CleanedKey == Called("clean") /\ last.key # <<>>
TheKey == last.key[1]
EscapingKey(k) == Escapes(resolve_path(k))

\* The path each operation builds for a key.
CleanTarget(k) == Join(MixStore, resolve_path(k))
MxTarget(k) == Join(MxStore, resolve_path(k))

\* Where a path led when the last operation was called.
Was(p) == Lookup(pre, p).at

RemovedDirs == {d \in DOMAIN pre \ DOMAIN fs : pre[d].kind = "dir"}

\* Pruning as the design states it: from a directory upward, remove each
\* directory that is strictly inside the store root and empty; stop at the
\* first that is not.
RECURSIVE PrunedUpward(_, _, _)
PrunedUpward(f, d, store) ==
    IF StartsWith(d, store) /\ d # store /\ d \in DOMAIN f /\ Children(f, d) = {}
        THEN PrunedUpward(Without(f, {d}), Parent(d), store)
        ELSE f

----------------------------------------------------------------------------
(* Claims *)

\* C1: clean(Some(key)) with a key whose resolved path escapes the store root
\* fails with PathTraversal and removes nothing.
C1_CleanRejectsTraversal ==
    (CleanedKey /\ EscapingKey(TheKey)) =>
        (last.res.kind = "PathTraversal" /\ fs = pre)

\* C2: when the store root exists, it still exists after clean(Some(key)),
\* and every directory the call removed was strictly inside the store root and
\* had nothing left in it.
C2_CleanKeepsStoreRoot ==
    (CleanedKey /\ Exists(pre, MixStore)) =>
        /\ Exists(fs, MixStore)
        /\ \A d \in RemovedDirs :
            /\ StartsWith(d, MixStore) /\ d # MixStore
            /\ \A q \in DOMAIN pre : (StartsWith(q, d) /\ q # d) => q \notin DOMAIN fs

\* C3: when the target file exists, clean(Some(key)) succeeds, the file is
\* gone, and exactly the directories above it that are strictly inside the
\* store root and now empty are gone, up to the first non-empty one.
C3_CleanPrunes ==
    (CleanedKey /\ IsFile(pre, CleanTarget(TheKey))) =>
        /\ last.res.kind = "Ok"
        /\ fs = PrunedUpward(Without(pre, {Was(CleanTarget(TheKey))}),
                             Parent(Was(CleanTarget(TheKey))), MixStore)

\* C4: touch_context with force = false on a path that exists changes nothing
\* in the filesystem, whatever the paste flag and the clipboard, and reports
\* existed = true, overwritten = false.
C4_TouchKeepsExisting ==
    (Called("touch") /\ ~last.force /\ Exists(pre, MxTarget(TheKey))) =>
        /\ fs = pre
        /\ (~EscapingKey(TheKey)) => last.res.kind = "Ok"
        /\ last.res.kind = "Ok" => (last.res.existed /\ ~last.res.overwritten)

C4_Witness ==
    /\ Called("touch") /\ ~last.force /\ last.paste /\ last.clip # <<>>
    /\ IsFile(pre, MxTarget(TheKey))
    /\ pre[Was(MxTarget(TheKey))].data # last.clip[1]
    /\ last.res.kind = "Ok"

\* C5: a touch that succeeds leaves the path present; from absent it creates
\* the file and its missing parents and reports (existed, overwritten) =
\* (false, false); from present with force it truncates and reports (true,
\* true); from present without force it changes nothing, reports (true, false)
\* and is not an error. The file created or truncated holds the pasted text
\* when paste is set and is empty otherwise.
C5_TouchStateMachine ==
    /\ (Called("touch") /\ last.res.kind = "Ok") =>
        LET path == MxTarget(TheKey)
            was == Exists(pre, path)
            fresh == IF last.paste THEN last.clip[1] ELSE <<>>
        IN
        /\ last.res.path = path
        /\ Exists(fs, path)
        /\ last.res.existed = was
        /\ last.res.overwritten = (was /\ last.force)
        /\ last.res.overwritten => last.res.existed
        /\ (~was \/ last.force) =>
            /\ IsFile(fs, path)
            /\ fs[Lookup(fs, path).at].data = fresh
            /\ IsDir(fs, Parent(path))
        /\ (was /\ ~last.force) => fs = pre
    /\ (Called("touch") /\ ~EscapingKey(TheKey) /\ ~last.force
            /\ Exists(pre, MxTarget(TheKey))) => last.res.kind = "Ok"

C5_Witness ==
    /\ Called("touch") /\ last.res.kind = "Ok"
    /\ last.res.existed /\ last.res.overwritten
    /\ n >= 2
    /\ pre[Was(MxTarget(TheKey))].data # <<>>

\* C6: after touch(k, force = true), a write of content c to the touched file
\* and cat(k), cat returns exactly c.
C6_RoundTrip ==
    rt.phase = 3 =>
        /\ Called("cat") /\ last.key = rt.key
        /\ last.res.kind = "Ok"
        /\ last.res.data = rt.data

C6_Witness ==
    /\ rt.phase = 3 /\ rt.data = <<>>
    /\ last.res.kind = "Ok"
    /\ TheKey = K_tk

\* C7: cat and clean work on the same store: when cat(k) succeeds for a key
\* that does not escape, clean(Some(k)) succeeds and cat(k) then fails with
\* NotFound; after clean(None) every cat(k) fails with NotFound.
C7_SameStore ==
    Called("clean") =>
        IF last.key = <<>>
            THEN \A k \in Keys : ~EscapingKey(k) => cat(fs, k).kind = "NotFound"
            ELSE (~EscapingKey(TheKey) /\ cat(pre, TheKey).kind = "Ok") =>
                    (last.res.kind = "Ok" /\ cat(fs, TheKey).kind = "NotFound")

\* C8: cat with a key that does not escape fails with NotFound when its path
\* does not exist or is not a regular file ("not a file" for a directory), and
\* cat never changes the filesystem.
C8_CatNotFound ==
    /\ (Called("cat") /\ ~EscapingKey(TheKey) /\ ~IsFile(pre, MxTarget(TheKey))) =>
        /\ last.res.kind = "NotFound"
        /\ last.res.msg = IF Exists(pre, MxTarget(TheKey))
                             THEN "Path is not a file" ELSE "Context file not found"
    /\ Called("cat") => fs = pre

C8_Witness ==
    /\ Called("cat") /\ TheKey = K_somedir
    /\ IsDir(pre, MxTarget(TheKey))
    /\ last.res.kind = "NotFound" /\ last.res.msg = "Path is not a file"

\* C9: cat with a key whose resolved path escapes the store root fails with
\* PathTraversal, whether or not the store root or a file at the escaped
\* location exists.
C9_CatRejectsTraversal ==
    (Called("cat") /\ EscapingKey(TheKey)) => last.res.kind = "PathTraversal"

C9_Witness ==
    /\ Called("cat") /\ EscapingKey(TheKey)
    /\ IsFile(pre, MxTarget(TheKey))
    /\ last.res.kind = "PathTraversal"

\* C10: clean(Some(key)) fails with NotFound when no regular file is at the
\* resolved path (nothing there, or a directory), and then changes nothing.
C10_CleanNotFound ==
    (CleanedKey /\ ~IsFile(pre, CleanTarget(TheKey))) =>
        (last.res.kind = "NotFound" /\ fs = pre)

====
